---- MODULE Spec2Model ----
(***************************************************************************)
(* A model of zeroinstall/injector/run.py: execute_selections applies the  *)
(* environment bindings of a set of selections, plans the program to run   *)
(* and replaces the process image (or prints the plan); test_selections    *)
(* runs the same launch in a forked child whose output it captures.        *)
(*                                                                         *)
(* Strings are sequences of tokens: the token "/" is the path separator,   *)
(* ":" separates the entries of an environment value, "package:" and       *)
(* "sha1=" are id prefixes; every other token is a run of ordinary         *)
(* characters.                                                             *)
(***************************************************************************)
EXTENDS Integers, Sequences, FiniteSets

\* ------------------------------------------------------------------ bounds

\* Number of interfaces in a resolution (the keys of selections.selections).
MaxSels == 2
\* Longest argument vector handed to the program.
MaxArgs == 2
\* Most lines a launched program writes before it exits.
MaxOutput == 1

\* ----------------------------------------------------------------- strings

\* Python's None, kept apart from every string (the empty string is << >>).
None == <<"<None>">>

\* Python truthiness of an optional string: None and "" are false.
Truthy(s) == s # None /\ s # << >>

\* s.startswith('/')
StartsWithSlash(s) == Len(s) > 0 /\ s[1] = "/"

\* s.startswith('package:')
StartsWithPackage(s) == Len(s) > 0 /\ s[1] = "package:"

\* s[1:]
DropFirst(s) == SubSeq(s, 2, Len(s))

\* os.path.join(a, b) of posixpath: an absolute b discards a.
PathJoin(a, b) ==
    IF StartsWithSlash(b) THEN b
    ELSE IF a = << >> \/ a[Len(a)] = "/" THEN a \o b
    ELSE a \o <<"/">> \o b

\* p.rfind('/') + 1
LastSlash(p) ==
    IF \E k \in 1..Len(p) : p[k] = "/"
    THEN CHOOSE k \in 1..Len(p) : p[k] = "/" /\ \A m \in (k+1)..Len(p) : p[m] # "/"
    ELSE 0

\* head.rstrip('/')
RStripSlash(h) ==
    IF \E k \in 1..Len(h) : h[k] # "/"
    THEN SubSeq(h, 1, CHOOSE k \in 1..Len(h) : h[k] # "/" /\ \A m \in (k+1)..Len(h) : h[m] = "/")
    ELSE << >>

\* os.path.dirname(p) of posixpath.
PathDirname(p) ==
    LET head == SubSeq(p, 1, LastSlash(p))
    IN  IF head # << >> /\ (\E k \in 1..Len(head) : head[k] # "/")
        THEN RStripSlash(head)
        ELSE head

\* ---------------------------------------------------------------- bindings

\* model.EnvironmentBinding records and one binding of another class.
BPrepend == [class |-> "EnvironmentBinding", name |-> "PATH", mode |-> "prepend",
             insert |-> <<"bin">>, default |-> None]
BAppend  == [class |-> "EnvironmentBinding", name |-> "PATH", mode |-> "append",
             insert |-> <<"bin">>, default |-> <<"/", "usr", "/", "bin">>]
BReplace == [class |-> "EnvironmentBinding", name |-> "LIB", mode |-> "replace",
             insert |-> <<"lib">>, default |-> None]
BOverlay == [class |-> "OverlayBinding", name |-> "", mode |-> "", insert |-> << >>,
             default |-> None]

VarNames == {"PATH", "LIB"}

\* EnvironmentBinding.get_value(path, old_value).
get_value(b, path, old_value) ==
    LET extra == PathJoin(path, b.insert)
        old   == IF old_value = None THEN b.default ELSE old_value
    IN  IF b.mode = "replace" THEN extra
        ELSE IF old = None THEN extra
        ELSE IF b.mode = "prepend" THEN extra \o <<":">> \o old
        ELSE old \o <<":">> \o extra

\* ------------------------------------------------------------------- store

\* The digests present in the implementation cache, and where each lives.
StoredDigests == {"d1", "d2", "d3"}
StorePath(d) == <<"/", "store", "/", d>>

\* What lookup_any raises when no digest is stored.
NotStored == <<"<NotStored>">>

\* iface_cache.stores.lookup_any(digests): the first stored digest's path.
lookup_any(digests) ==
    IF \E k \in 1..Len(digests) : digests[k] \in StoredDigests
    THEN StorePath(digests[CHOOSE k \in 1..Len(digests) :
                             /\ digests[k] \in StoredDigests
                             /\ \A m \in 1..(k-1) : digests[m] \notin StoredDigests])
    ELSE NotStored

\* impl.local_path or iface_cache.stores.lookup_any(impl.digests)
UsesStore(impl) == ~Truthy(impl.local_path)
_get_implementation_path_fallback(impl) ==
    IF Truthy(impl.local_path) THEN impl.local_path
    ELSE IF lookup_any(impl.digests) = NotStored THEN <<"/", "tmp">>
    ELSE lookup_any(impl.digests)
_get_implementation_path(impl) ==
    IF Truthy(impl.local_path) THEN impl.local_path ELSE lookup_any(impl.digests)


\* do_env_binding(binding, path): os.environ[name] is recomputed from its
\* current value.
do_env_binding_stale(b, path, env) ==
    [env EXCEPT ![b.name] = get_value(b, path, None)]
do_env_binding(b, path, env) ==
    [env EXCEPT ![b.name] = get_value(b, path, env[b.name])]

\* _do_bindings(impl, bindings) from binding k on: the resulting environment,
\* whether the store was asked for impl's digests, and whether the lookup
\* raised (the bindings after it are not applied).
RECURSIVE DoBindingsFrom(_, _, _, _)
DoBindingsFrom(impl, bindings, k, st) ==
    IF k > Len(bindings) THEN st
    ELSE IF bindings[k].class # "EnvironmentBinding"
    THEN DoBindingsFrom(impl, bindings, k + 1, st)
    ELSE LET path == _get_implementation_path(impl)
             asked == st.asked \/ UsesStore(impl)
         IN  IF path = NotStored
             THEN [st EXCEPT !.asked = asked, !.raised = TRUE]
             ELSE DoBindingsFrom(impl, bindings, k + 1,
                    [st EXCEPT !.asked = asked,
                               !.environ = do_env_binding(bindings[k], path, st.environ)])

_do_bindings_reset(impl, bindings, env) ==
    LET r == DoBindingsFrom(impl, bindings, 1,
                            [environ |-> env, asked |-> FALSE, raised |-> FALSE])
    IN  IF r.raised THEN [r EXCEPT !.environ = [v \in DOMAIN env |-> None]] ELSE r

_do_bindings(impl, bindings, env) ==
    DoBindingsFrom(impl, bindings, 1, [environ |-> env, asked |-> FALSE, raised |-> FALSE])

\* -------------------------------------------------------------- resolutions

DigestNames == <<"d1", "d2", "d3">>
LocalNames == <<"src1", "src2", "src3">>

\* The ways one interface can be satisfied.
StoreHit(n) == [id |-> <<"sha1=", DigestNames[n]>>, local_path |-> None,
                digests |-> <<DigestNames[n]>>]
StoreMiss(n) == [id |-> <<"sha1=", "gone">>, local_path |-> None,
                 digests |-> <<"gone">>]
Local(n) == [id |-> <<"/", "home", "/", LocalNames[n]>>,
             local_path |-> <<"/", "home", "/", LocalNames[n]>>,
             digests |-> << >>]
Package(n) == [id |-> <<"package:", "deb">>, local_path |-> None, digests |-> << >>]

Implementations(n) == {StoreHit(n), StoreMiss(n), Local(n), Package(n)}

Interfaces == 1..MaxSels
NextInterface(n) == (n % MaxSels) + 1

Dep(t, bs) == [interface |-> t, bindings |-> bs]

\* The bindings and dependencies a selection may declare.
Declarations(n) ==
    { [bindings |-> << >>, dependencies |-> << >>],
      [bindings |-> << >>, dependencies |-> <<Dep(NextInterface(n), <<BPrepend>>)>>],
      [bindings |-> <<BPrepend>>,
       dependencies |-> <<Dep(NextInterface(n), <<BOverlay, BPrepend>>)>>],
      [bindings |-> <<BOverlay, BAppend>>,
       dependencies |-> <<Dep(NextInterface(n), <<BAppend>>), Dep(n, <<BReplace>>)>>] }

Selection(impl, decl) ==
    [id |-> impl.id, local_path |-> impl.local_path, digests |-> impl.digests,
     bindings |-> decl.bindings, dependencies |-> decl.dependencies]

SelectionsOf(n) == {Selection(m, d) : m \in Implementations(n), d \in Declarations(n)}
PlainSelectionsOf(n) ==
    {Selection(m, [bindings |-> << >>, dependencies |-> << >>]) : m \in Implementations(n)}

Requirements ==
    {<< >>} \cup {<<Dep(t, bs)>> : t \in Interfaces, bs \in {<<BPrepend>>, <<BAppend>>}}

CommandPaths == {None, << >>, <<"run">>, <<"bin", "/", "run">>, <<"/", "bin", "/", "run">>}
Mains == {None, << >>, <<"alt">>, <<"/", "alt">>, <<"/", "/", "alt">>}
Wrappers == {None, << >>, <<"strace -f">>}
ArgNames == <<"a1", "a2", "a3", "a4">>
ArgLists == {[k \in 1..n |-> <<ArgNames[k]>>] : n \in 0..MaxArgs}
Environments == {[v \in VarNames |-> IF v = "PATH" THEN p ELSE None] :
                    p \in {None, <<"/", "bin">>}}


\* ------------------------------------------------------------------- state

VARIABLES
    selections,  \* the resolution: [interface, selections, command]
    call,        \* the caller's arguments: [prog_args, dry_run, main, wrapper]
    entry,       \* "execute_selections" or "test_selections"
    env0,        \* os.environ before the launch
    environ,     \* os.environ of the process running execute_selections
    pc,          \* position of the process running execute_selections
    i, j,        \* positions in the loops over selections and dependencies
    main, prog_path, prog_args, wrapper,   \* locals of execute_selections
    outcome,     \* how the execute_selections call ended, "none" until it has
    raised,      \* the exception execute_selections raised, or NoException
    image,       \* "python", or "program" once os.execl has replaced it
    stdout,      \* text printed to sys.stdout and not flushed yet
    storeLog,    \* the store lookups made: [interface, phase]
    existsLog,   \* the os.path.exists calls made: [path, result]
    ppc,         \* position of the process that called test_selections
    child,       \* what os.fork returned in the parent (0: no child yet)
    status,      \* the child's wait status once it has terminated, else -1
    waited,      \* what os.waitpid returned: [pid, status] (pid 0: not yet)
    output,      \* content of the temporary file
    bufLog,      \* accesses to the temporary file, in order: [by, op]
    results      \* the text test_selections returns, once it has read it

vars == <<selections, call, entry, env0, environ, pc, i, j, main, prog_path,
          prog_args, wrapper, outcome, raised, image, stdout, storeLog,
          existsLog, ppc, child, status, waited, output, bufLog, results>>

inputVars == <<selections, call, entry, env0>>
harnessVars == <<ppc, child, status, waited, output, bufLog, results>>
localVars == <<main, prog_path, prog_args, wrapper>>

sels == selections.selections
command == selections.command
root_sel == sels[selections.interface]

\* ------------------------------------------------------------------- Init

Exc(kind, path, id, m) ==
    [kind |-> kind, program_path |-> path, implementation_id |-> id, main |-> m]
NoException == Exc("none", None, None, None)

DefaultCommandPath == <<"bin", "/", "run">>

\* Resolutions with bindings and dependencies on every selection, the first
\* interface the root, launched with the command's own path.
InitWalk ==
    /\ selections \in [interface : {1},
                       selections : {s \in [Interfaces -> UNION {SelectionsOf(n) : n \in Interfaces}] :
                                        \A n \in Interfaces : s[n] \in SelectionsOf(n)},
                       command : [path : {DefaultCommandPath}, requires : Requirements]]
    /\ call \in [prog_args : {<< >>}, dry_run : BOOLEAN, main : {None}, wrapper : {None}]
    /\ entry = "execute_selections"
    /\ env0 \in Environments

\* Every command path, main override, wrapper and argument vector, on
\* resolutions whose only binding is one of the command's requirements.
InitPlan ==
    /\ \E r \in Interfaces :
         selections \in [interface : {r},
                         selections : {s \in [Interfaces -> UNION {PlainSelectionsOf(n) : n \in Interfaces}] :
                                          /\ s[r] \in PlainSelectionsOf(r)
                                          /\ \A n \in Interfaces \ {r} :
                                               s[n] = Selection(StoreHit(n),
                                                        [bindings |-> << >>, dependencies |-> << >>])},
                         command : [path : CommandPaths,
                                    requires : {<< >>, <<Dep(r, <<BPrepend>>)>>}]]
    /\ call \in [prog_args : ArgLists, dry_run : BOOLEAN, main : Mains, wrapper : Wrappers]
    /\ entry \in {"execute_selections", "test_selections"}
    /\ env0 \in {[v \in VarNames |-> None]}

ChildWrapperPassed(w) == w

\* execute_selections(selections, prog_args, dry_run, main) as the child of
\* test_selections calls it: the wrapper is not passed on.
ChildWrapper(w) == None

Init ==
    /\ InitWalk \/ InitPlan
    /\ environ = env0
    /\ pc = IF entry = "execute_selections" THEN "sel_bindings" ELSE "idle"
    /\ i = 1
    /\ j = 1
    /\ main = call.main
    /\ prog_path = None
    /\ prog_args = call.prog_args
    /\ wrapper = IF entry = "execute_selections" THEN call.wrapper ELSE ChildWrapper(call.wrapper)
    /\ outcome = "none"
    /\ raised = NoException
    /\ image = "python"
    /\ stdout = << >>
    /\ storeLog = {}
    /\ existsLog = << >>
    /\ ppc = IF entry = "execute_selections" THEN "none" ELSE "tempfile"
    /\ child = 0
    /\ status = -1
    /\ waited = [pid |-> 0, status |-> -1]
    /\ output = << >>
    /\ bufLog = << >>
    /\ results = << >>


\* -------------------------------------------------------- execute_selections

\* Where control goes when the execute_selections call ends: back to the
\* caller, or on in the child of test_selections.
AfterCall(how) ==
    IF entry = "execute_selections" THEN "done"
    ELSE IF how = "raised" THEN "except"
    ELSE IF how = "returned" THEN "finally"
    ELSE "program"

Raise(exc) ==
    /\ raised' = exc
    /\ outcome' = "raised"
    /\ pc' = AfterCall("raised")

Logged(log, asked, n, phase) ==
    IF asked THEN log \cup {[interface |-> n, phase |-> phase]} ELSE log

\* for selection in sels.values(): _do_bindings(selection, selection.bindings)
SelBindings ==
    /\ pc = "sel_bindings"
    /\ LET r == _do_bindings(sels[i], sels[i].bindings, environ)
       IN  /\ environ' = r.environ
           /\ storeLog' = Logged(storeLog, r.asked, i, "bindings")
           /\ IF r.raised
              THEN Raise(Exc("NotStored", None, sels[i].id, None)) /\ j' = j
              ELSE pc' = "sel_deps" /\ j' = 1 /\ UNCHANGED <<raised, outcome>>
    /\ UNCHANGED <<inputVars, harnessVars, localVars, i, image, stdout, existsLog>>

ApplyDepToOwner(dep, env) == _do_bindings(sels[i], dep.bindings, env)
\* One dependency: its bindings are applied against the selection it names,
\* unless that selection comes from the distribution's package manager.
ApplyDep(dep, env) ==
    IF ~StartsWithPackage(sels[dep.interface].id)
    THEN _do_bindings(sels[dep.interface], dep.bindings, env)
    ELSE [environ |-> env, asked |-> FALSE, raised |-> FALSE]

\* for dep in selection.dependencies: ...
DepBindings ==
    /\ pc = "sel_deps"
    /\ j <= Len(sels[i].dependencies)
    /\ LET dep == sels[i].dependencies[j]
           r == ApplyDep(dep, environ)
       IN  /\ environ' = r.environ
           /\ storeLog' = Logged(storeLog, r.asked, dep.interface, "dependency")
           /\ IF r.raised
              THEN Raise(Exc("NotStored", None, sels[dep.interface].id, None)) /\ j' = j
              ELSE pc' = pc /\ j' = j + 1 /\ UNCHANGED <<raised, outcome>>
    /\ UNCHANGED <<inputVars, harnessVars, localVars, i, image, stdout, existsLog>>

NextSelectionSkipsRequires ==
    /\ pc = "sel_deps"
    /\ j > Len(sels[i].dependencies)
    /\ IF i < Len(sels)
       THEN i' = i + 1 /\ pc' = "sel_bindings"
       ELSE i' = i /\ pc' = "plan"
    /\ j' = 1
    /\ UNCHANGED <<inputVars, harnessVars, localVars, environ, outcome, raised, image,
                   stdout, storeLog, existsLog>>

\* The end of a selection's dependencies: on to the next selection, and after
\* the last one to the command's requirements.
NextSelection ==
    /\ pc = "sel_deps"
    /\ j > Len(sels[i].dependencies)
    /\ IF i < Len(sels)
       THEN i' = i + 1 /\ pc' = "sel_bindings"
       ELSE i' = i /\ pc' = IF command.requires = << >> THEN "plan" ELSE "requires"
    /\ j' = 1
    /\ UNCHANGED <<inputVars, harnessVars, localVars, environ, outcome, raised, image,
                   stdout, storeLog, existsLog>>

\* for dep in command.requires: ...
CommandRequires ==
    /\ pc = "requires"
    /\ j <= Len(command.requires)
    /\ LET dep == command.requires[j]
           r == ApplyDep(dep, environ)
       IN  /\ environ' = r.environ
           /\ storeLog' = Logged(storeLog, r.asked, dep.interface, "requires")
           /\ IF r.raised
              THEN Raise(Exc("NotStored", None, sels[dep.interface].id, None)) /\ j' = j
              ELSE /\ pc' = IF j = Len(command.requires) THEN "plan" ELSE "requires"
                   /\ j' = j + 1
                   /\ UNCHANGED <<raised, outcome>>
    /\ UNCHANGED <<inputVars, harnessVars, localVars, i, image, stdout, existsLog>>

PackageMainStripped(m, command_path) ==
    IF m = None THEN command_path
    ELSE IF StartsWithSlash(m) THEN DropFirst(m)
    ELSE m

\* main or command_path
PackageMain(m, command_path) ==
    IF Truthy(m) THEN m ELSE command_path

\* if root_sel.id.startswith('package:'): main = main or command_path
PlanPackage ==
    /\ pc = "plan"
    /\ StartsWithPackage(root_sel.id)
    /\ main' = PackageMain(main, command.path)
    /\ prog_path' = main'
    /\ pc' = "check_main"
    /\ UNCHANGED <<inputVars, harnessVars, prog_args, wrapper, environ, i, j, outcome,
                   raised, image, stdout, storeLog, existsLog>>

CommandPathNeverAbsolute == FALSE
CommandPathIsAbsolute == Truthy(command.path) /\ StartsWithSlash(command.path)

\* raise SafeException("Command path must be relative, ...")
RaiseCommandPathAbsolute ==
    /\ pc = "plan"
    /\ ~StartsWithPackage(root_sel.id)
    /\ CommandPathIsAbsolute
    /\ Raise(Exc("CommandPathAbsolute", command.path, None, None))
    /\ UNCHANGED <<inputVars, harnessVars, localVars, environ, i, j, image, stdout,
                   storeLog, existsLog>>

EffectiveMainRelativeFirst(m, command_path) ==
    IF m = None THEN command_path
    ELSE IF Truthy(command_path) THEN PathJoin(PathDirname(command_path), m)
    ELSE IF StartsWithSlash(m) THEN DropFirst(m)
    ELSE m
EffectiveMainNoDirname(m, command_path) ==
    IF m = None THEN command_path
    ELSE IF StartsWithSlash(m) THEN DropFirst(m)
    ELSE m
EffectiveMainOrEmpty(m, command_path) ==
    IF m = None THEN (IF command_path = None THEN << >> ELSE command_path)
    ELSE IF StartsWithSlash(m) THEN DropFirst(m)
    ELSE IF Truthy(command_path) THEN PathJoin(PathDirname(command_path), m)
    ELSE m
\* The main of an implementation from the store or a local directory.
EffectiveMain(m, command_path) ==
    IF m = None THEN command_path
    ELSE IF StartsWithSlash(m) THEN DropFirst(m)
    ELSE IF Truthy(command_path) THEN PathJoin(PathDirname(command_path), m)
    ELSE m

\* prog_path = os.path.join(_get_implementation_path(root_sel), main)
PlanMain ==
    /\ pc = "plan"
    /\ ~StartsWithPackage(root_sel.id)
    /\ ~CommandPathIsAbsolute
    /\ main' = EffectiveMain(main, command.path)
    /\ IF main' # None
       THEN LET path == _get_implementation_path(root_sel)
            IN  /\ storeLog' = Logged(storeLog, UsesStore(root_sel), selections.interface, "plan")
                /\ IF path = NotStored
                   THEN Raise(Exc("NotStored", None, root_sel.id, None)) /\ prog_path' = prog_path
                   ELSE /\ prog_path' = PathJoin(path, main')
                        /\ pc' = "check_main"
                        /\ UNCHANGED <<raised, outcome>>
       ELSE /\ pc' = "check_main"
            /\ UNCHANGED <<prog_path, storeLog, raised, outcome>>
    /\ UNCHANGED <<inputVars, harnessVars, prog_args, wrapper, environ, i, j, image,
                   stdout, existsLog>>

\* if main is None: raise Exception("Implementation ... cannot be executed directly")
RaiseNotExecutable ==
    /\ pc = "check_main"
    /\ main = None
    /\ Raise(Exc("NotExecutable", None, root_sel.id, None))
    /\ UNCHANGED <<inputVars, harnessVars, localVars, environ, i, j, image, stdout,
                   storeLog, existsLog>>

\* The path handed to os.path.exists.
ExistsTargetShell == <<"/", "bin", "/", "sh">>
ExistsTarget == prog_path

\* What os.path.exists may answer: the empty path never exists.
ExistsAnswers(path) == IF path = << >> THEN {FALSE} ELSE BOOLEAN

MissingProgramOverride ==
    Exc("MissingProgram", prog_path, root_sel.id, call.main)

\* SafeException("File '%s' does not exist ... (implementation '%s' + program '%s')"
\*               % (prog_path, root_sel.id, main))
MissingProgram ==
    Exc("MissingProgram", prog_path, root_sel.id, main)

\* if not os.path.exists(prog_path): raise SafeException("File ... does not exist.")
ExistsCheck ==
    /\ pc = "check_main"
    /\ main # None
    /\ \E present \in ExistsAnswers(ExistsTarget) :
         /\ existsLog' = Append(existsLog, [path |-> ExistsTarget, result |-> present])
         /\ IF present
            THEN pc' = "wrapper" /\ UNCHANGED <<raised, outcome>>
            ELSE Raise(MissingProgram)
    /\ UNCHANGED <<inputVars, harnessVars, localVars, environ, i, j, image, stdout, storeLog>>

Shell == <<"/", "bin", "/", "sh">>
WrappedArgsPathLast(w, path, args) == <<<<"-c">>, w \o <<" \"$@\"">>, <<"-">>>> \o args \o <<path>>
WrappedArgs(w, path, args) == <<<<"-c">>, w \o <<" \"$@\"">>, <<"-">>, path>> \o args

\* if wrapper: prog_args = ['-c', wrapper + ' "$@"', '-', prog_path] + list(prog_args)
ApplyWrapper ==
    /\ pc = "wrapper"
    /\ IF Truthy(wrapper)
       THEN prog_args' = WrappedArgs(wrapper, prog_path, prog_args) /\ prog_path' = Shell
       ELSE UNCHANGED <<prog_args, prog_path>>
    /\ pc' = "launch"
    /\ UNCHANGED <<inputVars, harnessVars, main, wrapper, environ, i, j, outcome, raised,
                   image, stdout, storeLog, existsLog>>

\* if dry_run:
DryRunIgnored == FALSE
dry_run == call.dry_run

WouldExecute(path, args) == [kind |-> "Would execute:", words |-> <<path>> \o args]

\* if dry_run: print "Would execute: ..."
DryRunPrint ==
    /\ pc = "launch"
    /\ dry_run
    /\ stdout' = Append(stdout, WouldExecute(prog_path, prog_args))
    /\ outcome' = "returned"
    /\ pc' = AfterCall("returned")
    /\ UNCHANGED <<inputVars, harnessVars, localVars, environ, i, j, raised, image,
                   storeLog, existsLog>>

\* What a flush of sys.stdout adds to the temporary file: in the child of
\* test_selections file descriptor 1 is the temporary file.
Flushed == IF entry = "test_selections" THEN stdout ELSE << >>
Writes(by, text) == [k \in 1..Len(text) |-> [by |-> by, op |-> "write"]]

\* else: flush; os.execl(prog_path, prog_path, *prog_args)
Exec ==
    /\ pc = "launch"
    /\ ~dry_run
    /\ output' = output \o Flushed
    /\ bufLog' = bufLog \o Writes("child", Flushed)
    /\ stdout' = << >>
    /\ \E started \in BOOLEAN :
         IF started
         THEN /\ image' = "program"
              /\ outcome' = "replaced"
              /\ pc' = AfterCall("replaced")
              /\ raised' = raised
         ELSE /\ Raise(Exc("ExecFailed", prog_path, None, None))
              /\ image' = image
    /\ UNCHANGED <<inputVars, localVars, environ, i, j, storeLog, existsLog, ppc, child,
                   status, waited, results>>


\* ----------------------------------------------------------- test_selections

ChildPids == {4711}
\* Wait statuses of a launched program: exit codes 0, 1, 2 and death by SIGKILL.
ProgramStatuses == {0, 256, 512, 9}
\* The wait status of a process that called os._exit(code).
ExitStatusLost(code) == 0 * code
ExitStatus(code) == code * 256
\* os._exit(1)
ChildExitCode == 1

execPcs == {"sel_bindings", "sel_deps", "requires", "plan", "check_main", "wrapper", "launch"}

\* output = tempfile.TemporaryFile(prefix = '0launch-test')
CreateTemp ==
    /\ ppc = "tempfile"
    /\ output' = << >>
    /\ ppc' = "fork"
    /\ UNCHANGED <<inputVars, localVars, environ, pc, i, j, outcome, raised, image,
                   stdout, storeLog, existsLog, child, status, waited, bufLog, results>>

\* child = os.fork()
Fork ==
    /\ ppc = "fork"
    /\ \E pid \in ChildPids : child' = pid
    /\ ppc' = "info"
    /\ pc' = "dup2"
    /\ UNCHANGED <<inputVars, localVars, environ, i, j, outcome, raised, image, stdout,
                   storeLog, existsLog, status, waited, output, bufLog, results>>

\* info("Waiting for test process to finish...")
ParentInfo ==
    /\ ppc = "info"
    /\ ppc' = "waitpid"
    /\ UNCHANGED <<inputVars, localVars, environ, pc, i, j, outcome, raised, image,
                   stdout, storeLog, existsLog, child, status, waited, output, bufLog,
                   results>>

\* In the child: os.dup2(output.fileno(), 1); os.dup2(output.fileno(), 2);
\* execute_selections(selections, prog_args, dry_run, main)
ChildDup2 ==
    /\ pc = "dup2"
    /\ pc' = "sel_bindings"
    /\ UNCHANGED <<inputVars, harnessVars, localVars, environ, i, j, outcome, raised,
                   image, stdout, storeLog, existsLog>>

Traceback(exc) == [kind |-> "Traceback", exception |-> exc]

\* except: traceback.print_exc()
ChildExcept ==
    /\ pc = "except"
    /\ output' = Append(output, Traceback(raised))
    /\ bufLog' = Append(bufLog, [by |-> "child", op |-> "write"])
    /\ pc' = "finally"
    /\ UNCHANGED <<inputVars, localVars, environ, i, j, outcome, raised, image, stdout,
                   storeLog, existsLog, ppc, child, status, waited, results>>

ChildFinallyExitsZeroOnReturn ==
    /\ pc = "finally"
    /\ output' = output \o Flushed
    /\ bufLog' = bufLog \o Writes("child", Flushed)
    /\ stdout' = << >>
    /\ status' = IF outcome = "returned" THEN ExitStatus(0) ELSE ExitStatus(ChildExitCode)
    /\ pc' = "exited"
    /\ UNCHANGED <<inputVars, localVars, environ, i, j, outcome, raised, image,
                   storeLog, existsLog, ppc, child, waited, results>>

\* finally: sys.stdout.flush(); sys.stderr.flush(); os._exit(1)
ChildFinally ==
    /\ pc = "finally"
    /\ output' = output \o Flushed
    /\ bufLog' = bufLog \o Writes("child", Flushed)
    /\ stdout' = << >>
    /\ status' = ExitStatus(ChildExitCode)
    /\ pc' = "exited"
    /\ UNCHANGED <<inputVars, localVars, environ, i, j, outcome, raised, image,
                   storeLog, existsLog, ppc, child, waited, results>>

\* The launched program writes to its standard output or error.
ProgramWrite ==
    /\ pc = "program"
    /\ Len(output) < MaxOutput
    /\ output' = Append(output, [kind |-> "program output"])
    /\ bufLog' = Append(bufLog, [by |-> "child", op |-> "write"])
    /\ UNCHANGED <<inputVars, localVars, environ, pc, i, j, outcome, raised, image,
                   stdout, storeLog, existsLog, ppc, child, status, waited, results>>

\* The launched program terminates.
ProgramExit ==
    /\ pc = "program"
    /\ \E st \in ProgramStatuses : status' = st
    /\ pc' = "exited"
    /\ UNCHANGED <<inputVars, localVars, environ, i, j, outcome, raised, image, stdout,
                   storeLog, existsLog, ppc, child, waited, output, bufLog, results>>

\* Whether os.waitpid(pid, 0) can return: the process has terminated.
TerminatedOrRunning(pid) == pid = child
Terminated(pid) == pid = child /\ status # -1

\* pid, status = os.waitpid(child, 0); assert pid == child
ParentWaitpid ==
    /\ ppc = "waitpid"
    /\ Terminated(child)
    /\ waited' = [pid |-> child, status |-> status]
    /\ ppc' = "read"
    /\ UNCHANGED <<inputVars, localVars, environ, pc, i, j, outcome, raised, image,
                   stdout, storeLog, existsLog, child, status, output, bufLog, results>>

ChildError(st) == [kind |-> "Error from child process: exit code =", code |-> st]

\* output.seek(0); results = output.read(); if status != 0: results += ...
ParentRead ==
    /\ ppc = "read"
    /\ bufLog' = Append(bufLog, [by |-> "parent", op |-> "read"])
    /\ results' = IF waited.status # 0 THEN Append(output, ChildError(waited.status))
                  ELSE output
    /\ ppc' = "close"
    /\ UNCHANGED <<inputVars, localVars, environ, pc, i, j, outcome, raised, image,
                   stdout, storeLog, existsLog, child, status, waited, output>>

\* finally: output.close(); return results
ParentReturn ==
    /\ ppc = "close"
    /\ ppc' = "returned"
    /\ UNCHANGED <<inputVars, localVars, environ, pc, i, j, outcome, raised, image,
                   stdout, storeLog, existsLog, child, status, waited, output, bufLog,
                   results>>

\* ------------------------------------------------------------ specification

ExecNext ==
    \/ SelBindings
    \/ DepBindings
    \/ NextSelection
    \/ CommandRequires
    \/ PlanPackage
    \/ RaiseCommandPathAbsolute
    \/ PlanMain
    \/ RaiseNotExecutable
    \/ ExistsCheck
    \/ ApplyWrapper
    \/ DryRunPrint
    \/ Exec

Next ==
    \/ ExecNext
    \/ CreateTemp
    \/ Fork
    \/ ParentInfo
    \/ ChildDup2
    \/ ChildExcept
    \/ ChildFinally
    \/ ProgramWrite
    \/ ProgramExit
    \/ ParentWaitpid
    \/ ParentRead
    \/ ParentReturn

Spec == Init /\ [][Next]_vars

\* -------------------------------------------------------------- properties

\* The path the resolver gives a selection: its local_path, else where the
\* store keeps the first of its digests that is stored.
Resolved(sel) ==
    IF sel.local_path # None /\ sel.local_path # << >> THEN sel.local_path
    ELSE IF \E k \in 1..Len(sel.digests) : sel.digests[k] \in StoredDigests
    THEN StorePath(sel.digests[1])
    ELSE NotStored

IsPackage(sel) == sel.id[1] = "package:"
RootAbsolute == command.path # None /\ command.path # << >> /\ command.path[1] = "/"
Printed == stdout \o output
DescriptionPrinted ==
    \E k \in 1..Len(Printed) :
        Printed[k] = [kind |-> "Would execute:", words |-> <<prog_path>> \o prog_args]

\* C1: a call of execute_selections ends as a dry run that printed the
\* description, returned and kept the process image; or as a replaced process
\* image when dry_run is false; or with an exception and the image kept. Until
\* it has ended, some step of the call can be taken.
C1_ThreeEndings ==
    /\ outcome \in {"none", "returned", "replaced", "raised"}
    /\ outcome = "returned" => call.dry_run /\ image = "python" /\ raised = NoException
                               /\ DescriptionPrinted
    /\ outcome = "replaced" => ~call.dry_run /\ image = "program" /\ raised = NoException
    /\ outcome = "raised" => raised # NoException /\ image = "python"
    /\ outcome = "none" => image = "python" /\ raised = NoException /\ Printed = << >>
    /\ image = "program" => ~call.dry_run /\ outcome = "replaced"
    /\ pc \in execPcs <=> (outcome = "none" /\ pc \notin {"idle", "dup2"})
    /\ pc \in execPcs => ENABLED ExecNext

C1_Witness ==
    /\ entry = "execute_selections"
    /\ outcome = "returned"
    /\ call.main # None
    /\ Len(call.prog_args) = 2

\* C2: when execute_selections raises in the child of test_selections, the
\* child writes the traceback to the temporary file and terminates with a
\* non-zero status, and the parent returns the text: the traceback, then the
\* line with the status.
C2_FailureIsCaptured ==
    (entry = "test_selections" /\ outcome = "raised") =>
        /\ ppc \in {"info", "waitpid", "read", "close", "returned"}
        /\ pc \in {"except", "finally", "exited"}
        /\ pc \in {"finally", "exited"} =>
              output = <<[kind |-> "Traceback", exception |-> raised]>>
        /\ pc = "exited" => status # 0 /\ status # -1
        /\ ppc \in {"close", "returned"} =>
              /\ Len(results) = 2
              /\ results[1] = [kind |-> "Traceback", exception |-> raised]
              /\ results[2].kind = "Error from child process: exit code ="
              /\ results[2].code # 0
        /\ ppc # "returned" => ENABLED Next

C2_Witness ==
    /\ entry = "test_selections"
    /\ ppc = "returned"
    /\ outcome = "raised"
    /\ raised.kind = "MissingProgram"
    /\ Len(results) = 2

\* A store lookup made while walking the bindings failed.
WalkLookupFailed ==
    \E e \in storeLog : e.phase # "plan" /\ Resolved(sels[e.interface]) = NotStored

\* C3 as stated: whenever the root command's path is absolute, no existence
\* check is made and planning can only end with the invalid-command-path
\* error, whatever the root selection's id and the main override. (Planning
\* starts when the walk over the bindings is finished; a store lookup that
\* fails during the walk ends the call before it.)
C3_AbsoluteAlwaysRejected ==
    RootAbsolute =>
        /\ existsLog = << >>
        /\ outcome # "none" =>
              /\ outcome = "raised"
              /\ \/ raised.kind = "CommandPathAbsolute"
                 \/ raised.kind = "NotStored" /\ WalkLookupFailed

\* C3 as amended: when the root command's path is absolute and the root
\* selection's id does not start with 'package:', no program path is planned
\* and no existence check is made, for every main override; once the walk over
\* the bindings is finished the only step is to raise the invalid-command-path
\* error, and the call ends with it (unless a store lookup of the walk failed
\* first). For a 'package:' root the error is never raised.
C3_AbsoluteRejectedForStoreRoot ==
    /\ (RootAbsolute /\ ~IsPackage(root_sel)) =>
          /\ existsLog = << >>
          /\ prog_path = None
          /\ pc \notin {"check_main", "wrapper", "launch"}
          /\ pc = "plan" => ENABLED RaiseCommandPathAbsolute /\ ~ENABLED PlanMain
                            /\ ~ENABLED PlanPackage
          /\ outcome # "none" =>
                /\ outcome = "raised"
                /\ \/ raised = [kind |-> "CommandPathAbsolute", program_path |-> command.path,
                                implementation_id |-> None, main |-> None]
                   \/ raised.kind = "NotStored" /\ WalkLookupFailed
    /\ raised.kind = "CommandPathAbsolute" => RootAbsolute /\ ~IsPackage(root_sel)

C3_Witness ==
    /\ RootAbsolute
    /\ ~IsPackage(root_sel)
    /\ call.main = <<"/", "alt">>
    /\ outcome = "raised"
    /\ raised.kind = "CommandPathAbsolute"

\* The executable planned for the root: what the existence check is about to
\* be made on.
Planned == pc = "check_main" /\ main # None

\* C4 as stated: whenever the main override starts with '/', the planned
\* executable is the root's resolved path joined with the override less its
\* first character.
C4_RootedMainAlwaysFromRoot ==
    (Planned /\ StartsWithSlash(call.main)) =>
        prog_path = PathJoin(Resolved(root_sel), DropFirst(call.main))

\* C4 as amended: the same for a root selection whose id does not start with
\* 'package:', with the join of os.path.join; and the planned executable is
\* not the one relative to the directory of command.path, where the two
\* differ. A 'package:' root's planned executable is the override as given.
C4_RootedMainFromStoreRoot ==
    (Planned /\ StartsWithSlash(call.main)) =>
        IF IsPackage(root_sel)
        THEN prog_path = call.main
        ELSE /\ prog_path = PathJoin(Resolved(root_sel), DropFirst(call.main))
             /\ main = DropFirst(call.main)
             /\ (Truthy(command.path) /\ PathDirname(command.path) # << >>
                 /\ ~StartsWithSlash(DropFirst(call.main))) =>
                   prog_path # PathJoin(Resolved(root_sel),
                                        PathJoin(PathDirname(command.path), DropFirst(call.main)))

C4_Witness ==
    /\ Planned
    /\ call.main = <<"/", "alt">>
    /\ ~IsPackage(root_sel)
    /\ command.path = <<"bin", "/", "run">>
    /\ prog_path = <<"/", "store", "/", "d1", "/", "alt">>

\* C5: no store lookup is made with the digests of a selection whose id
\* starts with 'package:'.
C5_NoPackageLookup ==
    \A e \in storeLog : ~IsPackage(sels[e.interface])

IsEnvironmentBinding(b) == b.class = "EnvironmentBinding"
EnvOf(bs) == SelectSeq(bs, IsEnvironmentBinding)

\* The environment after each binding of bs has been applied against path.
RECURSIVE Bound(_, _, _, _)
Bound(bs, k, path, env) ==
    IF k > Len(bs) THEN env
    ELSE Bound(bs, k + 1, path,
               [env EXCEPT ![bs[k].name] = get_value(bs[k], path, env[bs[k].name])])

\* The list of dependencies being walked, and whether the next step handles
\* one of them.
CurrentDeps == IF pc = "sel_deps" THEN sels[i].dependencies ELSE command.requires
AtDependency == pc \in {"sel_deps", "requires"} /\ j <= Len(CurrentDeps)

\* C6: a step of the walk that handles a dependency (of a selection or of the
\* root command) leaves the environment as it is when the selection the dependency
\* names has a 'package:' id; otherwise it applies each environment binding of
\* the dependency against the resolved path of the selection the dependency
\* names, not of the selection that declares it.
C6_DependencyBindings ==
    [][(AtDependency /\ <<pc, j>>' # <<pc, j>>) =>
        LET dep == CurrentDeps[j]
            target == sels[dep.interface]
            bs == EnvOf(dep.bindings)
        IN  IF IsPackage(target)
            THEN environ' = environ /\ storeLog' = storeLog /\ outcome' = "none"
            ELSE IF bs = << >> THEN environ' = environ /\ outcome' = "none"
            ELSE IF Resolved(target) = NotStored
            THEN environ' = environ /\ outcome' = "raised"
            ELSE /\ environ' = Bound(bs, 1, Resolved(target), environ)
                 /\ outcome' = "none"
                 /\ (pc = "sel_deps" /\ Resolved(sels[i]) # Resolved(target)) =>
                       environ' # Bound(bs, 1, Resolved(sels[i]), environ)
      ]_vars

C6_Witness ==
    /\ pc = "plan"
    /\ environ # env0
    /\ \E n \in Interfaces :
         /\ sels[n].dependencies # << >>
         /\ IsPackage(sels[sels[n].dependencies[1].interface])
    /\ \E n \in Interfaces :
         /\ sels[n].dependencies # << >>
         /\ sels[n].dependencies[1].interface # n
         /\ ~IsPackage(sels[sels[n].dependencies[1].interface])
         /\ EnvOf(sels[n].dependencies[1].bindings) # << >>

\* The environment bindings in the order of the walk, each with the path it
\* is applied against.
Contribs(bs, sel) == [k \in 1..Len(EnvOf(bs)) |-> [binding |-> EnvOf(bs)[k], path |-> Resolved(sel)]]
RECURSIVE DepContribs(_, _)
DepContribs(deps, k) ==
    IF k > Len(deps) THEN << >>
    ELSE (IF IsPackage(sels[deps[k].interface]) THEN << >>
          ELSE Contribs(deps[k].bindings, sels[deps[k].interface]))
         \o DepContribs(deps, k + 1)
RECURSIVE WalkContribs(_)
WalkContribs(n) ==
    IF n > Len(sels) THEN DepContribs(command.requires, 1)
    ELSE Contribs(sels[n].bindings, sels[n]) \o DepContribs(sels[n].dependencies, 1)
         \o WalkContribs(n + 1)
ContribsTo(v) == SelectSeq(WalkContribs(1), LAMBDA c : c.binding.name = v)

RECURSIVE JoinSep(_)
JoinSep(vals) ==
    IF vals = << >> THEN << >>
    ELSE IF Len(vals) = 1 THEN vals[1]
    ELSE vals[1] \o <<":">> \o JoinSep(Tail(vals))
Reverse(s) == [k \in 1..Len(s) |-> s[Len(s) + 1 - k]]

\* C7: when the walk is finished and all the bindings it applied to a
\* variable are prepend bindings (or all are append bindings), the variable
\* holds the paths they contribute, joined by the separator, the last applied
\* outermost, with the value the variable had before the launch (the first
\* binding's default when it had none) at the far end.
C7_OrderedConcatenation ==
    pc = "plan" =>
        \A v \in VarNames :
            LET cs == ContribsTo(v)
                extras == [k \in 1..Len(cs) |-> PathJoin(cs[k].path, cs[k].binding.insert)]
                base == IF env0[v] # None THEN <<env0[v]>>
                        ELSE IF cs[1].binding.default # None THEN <<cs[1].binding.default>>
                        ELSE << >>
            IN  /\ cs = << >> => environ[v] = env0[v]
                /\ (cs # << >> /\ \A k \in 1..Len(cs) : cs[k].binding.mode = "prepend") =>
                      environ[v] = JoinSep(Reverse(extras) \o base)
                /\ (cs # << >> /\ \A k \in 1..Len(cs) : cs[k].binding.mode = "append") =>
                      environ[v] = JoinSep(base \o extras)

C7_Witness ==
    /\ pc = "plan"
    /\ env0["PATH"] = <<"/", "bin">>
    /\ Len(ContribsTo("PATH")) >= 4
    /\ \A k \in 1..Len(ContribsTo("PATH")) : ContribsTo("PATH")[k].binding.mode = "prepend"
    /\ \E k \in 1..Len(ContribsTo("PATH")) : ContribsTo("PATH")[k].path # ContribsTo("PATH")[1].path

\* The executable the plan resolves to, before any wrapper.
ResolvedExecutable ==
    IF IsPackage(root_sel) THEN main ELSE PathJoin(Resolved(root_sel), main)

WrappedPlan(w) ==
    /\ prog_path = <<"/", "bin", "/", "sh">>
    /\ prog_args = <<<<"-c">>, w \o <<" \"$@\"">>, <<"-">>, ResolvedExecutable>> \o call.prog_args
PlainPlan ==
    /\ prog_path = ResolvedExecutable
    /\ prog_args = call.prog_args
CheckedResolvedExecutable ==
    existsLog = <<[path |-> ResolvedExecutable, result |-> TRUE]>>

\* C8 as stated: when the command is ready to launch, the one existence check
\* made was on the resolved executable; with a wrapper string supplied to
\* execute_selections the command is /bin/sh -c '<wrapper> "$@"' - <resolved
\* executable> <original arguments>; with none it is the resolved executable
\* with the original arguments.
C8_WrapperSupplied ==
    pc = "launch" =>
        /\ CheckedResolvedExecutable
        /\ IF wrapper # None THEN WrappedPlan(wrapper) ELSE PlainPlan

\* C8 as amended: the same, where an empty wrapper string counts as no
\* wrapper.
C8_WrapperNonEmpty ==
    pc = "launch" =>
        /\ CheckedResolvedExecutable
        /\ IF wrapper # None /\ wrapper # << >> THEN WrappedPlan(wrapper) ELSE PlainPlan

C8_Witness ==
    /\ pc = "launch"
    /\ wrapper = <<"strace -f">>
    /\ prog_path = <<"/", "bin", "/", "sh">>
    /\ prog_args = <<<<"-c">>, <<"strace -f", " \"$@\"">>, <<"-">>,
                     <<"/", "store", "/", "d1", "/", "bin", "/", "run">>, <<"a1">>, <<"a2">>>>

\* C9: the temporary file is written by the child only and read by the parent
\* only; the read is the last access, made when the child has terminated and
\* the parent has waited for it; the process waited for is the one os.fork
\* returned, and the status taken is that process's.
C9_WriteThenRead ==
    /\ \A k \in 1..Len(bufLog) :
         /\ bufLog[k].op = "write" => bufLog[k].by = "child"
         /\ bufLog[k].op = "read" =>
               /\ bufLog[k].by = "parent"
               /\ k = Len(bufLog)
               /\ pc = "exited"
               /\ status # -1
               /\ waited = [pid |-> child, status |-> status]
               /\ results \in {output, Append(output, ChildError(status))}
    /\ ppc \in {"read", "close", "returned"} =>
         /\ waited.pid = child
         /\ child \in ChildPids
         /\ waited.status = status
         /\ pc = "exited"
    /\ ppc \in {"close", "returned"} <=> (\E k \in 1..Len(bufLog) : bufLog[k].op = "read")
    /\ Len(output) = Cardinality({k \in 1..Len(bufLog) : bufLog[k].op = "write"})

C9_Witness ==
    /\ ppc = "returned"
    /\ image = "program"
    /\ bufLog = <<[by |-> "child", op |-> "write"], [by |-> "parent", op |-> "read"]>>

PlanningPcs == {"plan", "check_main", "wrapper", "launch"}

\* C10: in a dry run, no step taken after the walk over the bindings changes
\* the environment or replaces the process image; such a step makes at most
\* one existence check, the first of the call, on the resolved executable,
\* and the store is asked for nothing but the root's path.
C10_DryRunFrame ==
    [][(call.dry_run /\ pc \in PlanningPcs /\ pc' # pc) =>
          /\ environ' = environ
          /\ image' = image
          /\ output' = output
          /\ existsLog' # existsLog =>
                /\ existsLog = << >>
                /\ Len(existsLog') = 1
                /\ existsLog'[1].path = ResolvedExecutable
          /\ storeLog' \subseteq storeLog \cup {[interface |-> selections.interface, phase |-> "plan"]}
          /\ pc' \notin {"program"}
      ]_vars

C10_Witness ==
    /\ call.dry_run
    /\ outcome = "returned"
    /\ environ # env0
    /\ Len(existsLog) = 1
    /\ Truthy(wrapper)

\* C11: the description is printed or the image replaced only after the one
\* existence check of the resolved executable (the path before any wrapper)
\* answered yes; a check that answers no ends execute_selections, with dry_run
\* set or not, in the missing-program error that carries that path, the root
\* selection's id and the effective main.
C11_MissingProgram ==
    /\ outcome \in {"returned", "replaced"}
         => existsLog = <<[path |-> ResolvedExecutable, result |-> TRUE]>>
    /\ \A k \in 1..Len(existsLog) :
         ~existsLog[k].result
           => /\ Len(existsLog) = 1
              /\ existsLog[k].path = ResolvedExecutable
              /\ outcome = "raised"
              /\ image = "python"
              /\ stdout = << >>
              /\ raised = [kind |-> "MissingProgram",
                           program_path |-> ResolvedExecutable,
                           implementation_id |-> root_sel.id,
                           main |-> main]
    /\ raised.kind = "MissingProgram"
         => existsLog = <<[path |-> ResolvedExecutable, result |-> FALSE]>>

C11_Witness ==
    /\ raised.kind = "MissingProgram"
    /\ dry_run
    /\ ~IsPackage(root_sel)
    /\ call.main = <<"alt">>
    /\ command.path = <<"bin", "/", "run">>
    /\ raised.main = <<"bin", "/", "alt">>

\* The environment after the contributions cs[k..] have been applied in order.
RECURSIVE ApplyContribs(_, _, _)
ApplyContribs(cs, k, env) ==
    IF k > Len(cs) THEN env
    ELSE ApplyContribs(cs, k + 1,
           [env EXCEPT ![cs[k].binding.name] =
                get_value(cs[k].binding, cs[k].path, env[cs[k].binding.name])])

\* The contributions of the walk that come before the first one whose path the
\* store cannot resolve (all of them when every path resolves).
RECURSIVE Resolvable(_, _)
Resolvable(cs, k) ==
    IF k > Len(cs) \/ cs[k].path = NotStored THEN << >>
    ELSE <<cs[k]>> \o Resolvable(cs, k + 1)
AppliedBeforeFailure == Resolvable(WalkContribs(1), 1)

\* C12: nothing is rolled back when execute_selections raises: at the failure
\* and ever after, os.environ holds the result of every binding applied before
\* the failure (all of them when the failure comes after the walk), and nothing
\* else has changed it.
C12_NoRollback ==
    outcome = "raised"
      => /\ environ = ApplyContribs(AppliedBeforeFailure, 1, env0)
         /\ ~WalkLookupFailed => AppliedBeforeFailure = WalkContribs(1)
         /\ WalkLookupFailed => Len(AppliedBeforeFailure) < Len(WalkContribs(1))

C12_Witness ==
    /\ outcome = "raised"
    /\ raised.kind = "NotStored"
    /\ WalkLookupFailed
    /\ AppliedBeforeFailure # << >>
    /\ environ # env0
    /\ \E v \in VarNames : env0[v] = None /\ environ[v] # None

PlanLookups == {e \in storeLog : e.phase = "plan"}
WalkFailure == raised.kind = "NotStored" /\ WalkLookupFailed

\* C13 as stated: with the command's path and the main override both absent,
\* planning ends in the not-executable error without a store lookup for the
\* root and without an existence check; with at least one of them present the
\* not-executable error is never raised. (Planning starts when the walk over
\* the bindings is finished.)
C13_NotExecutableOnlyWhenBothAbsent ==
    /\ (call.main = None /\ command.path = None)
         => /\ existsLog = << >>
            /\ PlanLookups = {}
            /\ outcome # "none"
                 => outcome = "raised" /\ (raised.kind = "NotExecutable" \/ WalkFailure)
    /\ (call.main # None \/ command.path # None) => raised.kind # "NotExecutable"

\* C13: with the command's path and the main override both absent, planning
\* ends in the not-executable error, naming the root selection, without a
\* store lookup for the root and without an existence check, for a root from
\* the store and for a 'package:' root alike. The same happens for a
\* 'package:' root when the command's path is absent and the main override is
\* the empty string. In every other case the not-executable error is never
\* raised.
C13_NotExecutable ==
    LET absent == \/ call.main = None /\ command.path = None
                  \/ IsPackage(root_sel) /\ call.main = << >> /\ command.path = None
    IN  /\ absent
             => /\ existsLog = << >>
                /\ PlanLookups = {}
                /\ outcome # "none"
                     => outcome = "raised" /\ (raised.kind = "NotExecutable" \/ WalkFailure)
        /\ raised.kind = "NotExecutable"
             => absent /\ raised.implementation_id = root_sel.id /\ ~WalkLookupFailed

C13_Witness ==
    /\ raised.kind = "NotExecutable"
    /\ ~IsPackage(root_sel)
    /\ call.main = None
    /\ command.path = None
    /\ existsLog = << >>
    /\ storeLog # {}
    /\ PlanLookups = {}

StoreHas(sel) == \E k \in 1..Len(sel.digests) : sel.digests[k] \in StoredDigests

\* C14: the store is asked only about selections without a local_path; a
\* selection with a local_path is resolved to that path (the planned executable
\* of such a root is its local_path joined with the effective main); and a
\* lookup the store cannot answer ends the call in the lookup's failure,
\* with no executable planned from a substitute path.
C14_LocalPathWins ==
    /\ \A e \in storeLog :
         /\ sels[e.interface].local_path = None
         /\ ~StoreHas(sels[e.interface])
              => /\ outcome = "raised"
                 /\ raised.kind = "NotStored"
                 /\ existsLog = << >>
                 /\ image = "python"
                 /\ e.phase = "plan" => prog_path = None
    /\ (Planned /\ root_sel.local_path # None)
         => /\ prog_path = PathJoin(root_sel.local_path, main)
            /\ PlanLookups = {}
    /\ (Planned /\ root_sel.local_path = None /\ ~IsPackage(root_sel))
         => /\ PlanLookups = {[interface |-> selections.interface, phase |-> "plan"]}
            /\ StoreHas(root_sel)
            /\ prog_path = PathJoin(StorePath(root_sel.digests[1]), main)

C14_Witness ==
    /\ Planned
    /\ root_sel.local_path = <<"/", "home", "/", "src1">>
    /\ main = <<"bin", "/", "run">>
    /\ prog_path = <<"/", "home", "/", "src1", "/", "bin", "/", "run">>
    /\ storeLog = {}
    /\ environ # env0

WalkFinished == outcome = "none" /\ pc \in PlanningPcs

\* C15: from the moment planning starts, through the launch and after it, the
\* environment is the one left by the whole walk: every environment binding of
\* every selection and of each of its dependencies on a selection without a
\* 'package:' id, in the order of the walk, and after them those of the root
\* command's requirements on such selections. Planning and launching change
\* nothing of it.
C15_BindingsBeforePlanning ==
    (WalkFinished \/ outcome \in {"returned", "replaced"})
      => /\ environ = ApplyContribs(WalkContribs(1), 1, env0)
         /\ \A k \in 1..Len(WalkContribs(1)) : WalkContribs(1)[k].path # NotStored

C15_Witness ==
    /\ image = "program"
    /\ Len(DepContribs(command.requires, 1)) > 0
    /\ Len(WalkContribs(1)) > Len(DepContribs(command.requires, 1)) + 1
    /\ \E n \in Interfaces : Len(DepContribs(sels[n].dependencies, 1)) > 0
    /\ environ # env0

\* C16: for a root without a 'package:' id whose command path is relative or
\* absent, and a main override that is absent or relative, the planned
\* executable is the root's resolved path joined with the effective main: the
\* command's path when there is no override; the override joined onto the
\* directory of the command's path when there is one; the override itself when
\* the command has no path.
C16_StoreRootPlan ==
    (Planned /\ ~IsPackage(root_sel) /\ ~StartsWithSlash(call.main))
      => /\ ~RootAbsolute
         /\ main = IF call.main = None THEN command.path
                   ELSE IF command.path # None
                   THEN PathJoin(PathDirname(command.path), call.main)
                   ELSE call.main
         /\ prog_path = PathJoin(Resolved(root_sel), main)

C16_Witness ==
    /\ Planned
    /\ root_sel.digests = <<"d1">>
    /\ root_sel.local_path = None
    /\ call.main = <<"alt">>
    /\ command.path = <<"bin", "/", "run">>
    /\ prog_path = StorePath("d1") \o <<"/", "bin", "/", "alt">>

PackagePlanned == pc = "check_main" /\ outcome = "none" /\ IsPackage(root_sel)

\* C17 as stated: for a root with a 'package:' id the planned executable is
\* the main override whenever one is given, and the command's path otherwise,
\* taken literally.
C17_PackageRootOverrideGiven ==
    PackagePlanned
      => /\ prog_path = IF call.main # None THEN call.main ELSE command.path
         /\ PlanLookups = {}

\* C17: for a root with a 'package:' id the planned executable is the main
\* override when one is given and is not the empty string, and the command's
\* path otherwise, taken literally: the store is not asked for the root, a
\* leading '/' stays, and the directory of the command's path plays no part.
C17_PackageRootLiteral ==
    PackagePlanned
      => /\ prog_path = IF call.main # None /\ call.main # << >>
                        THEN call.main ELSE command.path
         /\ main = prog_path
         /\ PlanLookups = {}

C17_Witness ==
    /\ PackagePlanned
    /\ call.main = <<"/", "alt">>
    /\ command.path = <<"bin", "/", "run">>
    /\ prog_path = <<"/", "alt">>

ErrorLineAppended ==
    /\ results # << >>
    /\ results[Len(results)] \in [kind : {"Error from child process: exit code ="},
                                  code : Int]

\* C18: when test_selections returns, the line 'Error from child process: exit
\* code = N' ends the captured output exactly when the child's exit status was
\* not zero, and for a child that left through os._exit the N of the line is
\* the code it passed to os._exit.
C18_ReportsExitCode ==
    ppc = "returned"
      => /\ ErrorLineAppended <=> status # 0
         /\ (ErrorLineAppended /\ image = "python")
              => results[Len(results)].code = ChildExitCode

ChildPcs == execPcs \cup {"idle", "dup2", "except", "finally", "program", "exited"}

\* C19: in test_selections the child stays in its own branch and never
\* returns: when execute_selections raises or returns in it (the image not
\* replaced) it goes through the handler and the finally clause and terminates
\* with exit code 1 (wait status 256); only the parent reaches the return, and
\* only after the child has terminated; and the captured output of a
\* successful dry run is the description followed by the error line.
C19_ChildAlwaysExits ==
    entry = "test_selections"
      => /\ pc \in ChildPcs
         /\ outcome \in {"raised", "returned"}
              => /\ image = "python"
                 /\ pc \in {"except", "finally", "exited"}
                 /\ pc = "exited" => status = 256
                 /\ pc # "exited" => status = -1 /\ ppc \notin {"read", "close", "returned"}
         /\ ppc = "returned" => pc = "exited"
         /\ (ppc = "returned" /\ outcome = "returned")
              => /\ dry_run
                 /\ Len(results) = 2
                 /\ results[1] = WouldExecute(ResolvedExecutable, call.prog_args)
                 /\ results[2].kind = "Error from child process: exit code ="

C19_Witness ==
    /\ entry = "test_selections"
    /\ ppc = "returned"
    /\ outcome = "returned"
    /\ Len(results) = 2
    /\ status = 256

\* C20: the wrapper given to test_selections plays no part: whatever its
\* value, execute_selections runs in the child without a wrapper, the plan is
\* the resolved executable with the caller's arguments and never /bin/sh, and
\* what the call returns when the image was kept is the description or the
\* traceback, followed by the error line, none of which holds the wrapper.
C20_WrapperIgnored ==
    entry = "test_selections"
      => /\ wrapper = None
         /\ prog_path # Shell
         /\ (pc = "launch" \/ outcome \in {"returned", "replaced"}) => PlainPlan
         /\ outcome = "raised"
              => \/ raised.program_path = None
                 \/ raised.program_path = command.path
                 \/ raised.program_path = ResolvedExecutable
         /\ (ppc = "returned" /\ image = "python")
              => results = <<IF outcome = "returned"
                             THEN WouldExecute(ResolvedExecutable, call.prog_args)
                             ELSE Traceback(raised),
                             ChildError(256)>>
         /\ (ppc = "returned" /\ image = "program")
              => \A k \in 1..Len(results) :
                    \/ results[k] = [kind |-> "program output"]
                    \/ k = Len(results) /\ results[k] = ChildError(status)

C20_Witness ==
    /\ entry = "test_selections"
    /\ call.wrapper = <<"strace -f">>
    /\ ppc = "returned"
    /\ outcome = "returned"
    /\ call.prog_args # << >>
    /\ results[1] = WouldExecute(ResolvedExecutable, call.prog_args)

====
